---- MODULE Spec2Model ----
(***************************************************************************)
(* Model of djcopybook/fixedwidth/fields.py: the fixed-width field types,  *)
(* their to_python / to_record / get_record_value conversions, the         *)
(* descriptor accessors __get__ / __set__ and the global creation counter. *)
(*                                                                         *)
(* Text is a sequence of one-character strings.  A Python value is a       *)
(* record [t, s, n, items]: t is the runtime type, s the text of a str,    *)
(* n the number of an int / float (in tenths) / date, items the elements   *)
(* of a list, the field values of a record instance or of a mapping.       *)
(***************************************************************************)
EXTENDS Integers, Sequences, FiniteSets, TLC

\* ------------------------------------------------------------------ bounds
MaxFields == 3
MaxFactoryCalls == 2

\* ------------------------------------------------------------------ values
V(t, s, n, items) == [t |-> t, s |-> s, n |-> n, items |-> items]

None == V("NoneType", <<>>, 0, <<>>)

PyStr(s) == V("str", s, 0, <<>>)

PyInt(n) == V("int", <<>>, n, <<>>)

\* a float, held exactly as a number of tenths
PyFloat(tenths) == V("float", <<>>, tenths, <<>>)

\* datetime.datetime(y, m, d, h) and datetime.date(y, m, d)
PyDateTime(y, m, d, h) == V("datetime", <<>>, ((y * 100 + m) * 100 + d) * 100 + h, <<>>)

PyDate(y, m, d) == V("date", <<>>, ((y * 100 + m) * 100 + d) * 100, <<>>)

PyList(items) == V("list", <<>>, 0, items)

PyTuple(items) == V("tuple", <<>>, 0, items)

PyDict(items) == V("dict", <<>>, 0, items)

\* an instance of the record class named cls, holding one value per field
Rec(cls, items) == V(cls, <<>>, 0, items)

NOT_PROVIDED == V("NOT_PROVIDED", <<>>, 0, <<>>)

\* a zero-argument callable; calling it the k-th time returns PyInt(k)
Factory == V("function", <<>>, 0, <<>>)

\* ------------------------------------------------------------------ results
NoMsg == [fmt |-> "", attname |-> <<>>, value |-> <<>>, length |-> 0, cnt |-> 0, record |-> ""]

Ok(v) == [ok |-> TRUE, val |-> v, err |-> "", msg |-> NoMsg]

Raise(err, msg) == [ok |-> FALSE, val |-> None, err |-> err, msg |-> msg]

RaisePlain(err, fmt) == Raise(err, [NoMsg EXCEPT !.fmt = fmt])

\* ------------------------------------------------------------------ text
Digits == <<"0", "1", "2", "3", "4", "5", "6", "7", "8", "9">>

IsDigit(c) == \E i \in 1..10 : Digits[i] = c

DigitVal(c) == (CHOOSE i \in 1..10 : Digits[i] = c) - 1

IsSpace(c) == c \in {" ", "\n"}

Repeat(c, k) == [i \in 1..k |-> c]

Take(s, k) == SubSeq(s, 1, IF k < Len(s) THEN k ELSE Len(s))

Drop(s, k) == SubSeq(s, k + 1, Len(s))

RECURSIVE rstrip(_)
rstrip(s) == IF s # <<>> /\ IsSpace(s[Len(s)]) THEN rstrip(SubSeq(s, 1, Len(s) - 1)) ELSE s

RECURSIVE lstrip(_)
lstrip(s) == IF s # <<>> /\ IsSpace(s[1]) THEN lstrip(Tail(s)) ELSE s

strip(s) == lstrip(rstrip(s))

RECURSIVE NatStr(_)
NatStr(n) == IF n < 10 THEN <<Digits[n + 1]>> ELSE NatStr(n \div 10) \o <<Digits[(n % 10) + 1]>>

IntStr(n) == IF n < 0 THEN <<"-">> \o NatStr(-n) ELSE NatStr(n)

RECURSIVE DigitsVal(_)
DigitsVal(s) == IF s = <<>> THEN 0 ELSE DigitsVal(SubSeq(s, 1, Len(s) - 1)) * 10 + DigitVal(s[Len(s)])

AllDigits(s) == s # <<>> /\ \A i \in 1..Len(s) : IsDigit(s[i])

\* zero-padded decimal text of a natural number, at least w digits
ZeroPad(n, w) == LET t == NatStr(n) IN IF Len(t) < w THEN Repeat("0", w - Len(t)) \o t ELSE t

\* str(val) for the values the model passes around as text or numbers
FloatStr(tenths) ==
    LET a == IF tenths < 0 THEN -tenths ELSE tenths
    IN (IF tenths < 0 THEN <<"-">> ELSE <<>>) \o NatStr(a \div 10) \o <<".">> \o NatStr(a % 10)

str(val) ==
    CASE val.t = "str" -> val.s
      [] val.t = "int" -> IntStr(val.n)
      [] val.t = "float" -> FloatStr(val.n)
      [] val.t = "NoneType" -> <<"N", "o", "n", "e">>

isinstance_basestring(val) == val.t = "str"

\* ------------------------------------------------------------------ parsing
Signed(b) == b # <<>> /\ b[1] \in {"-", "+"}

Negate(neg, n) == IF neg THEN -n ELSE n

IsNegative(b) == b # <<>> /\ b[1] = "-"

\* int() of stripped text: an optional sign followed by digits, else ValueError
IntOfStripped(b, d) ==
    IF AllDigits(d)
    THEN Ok(PyInt(Negate(IsNegative(b), DigitsVal(d))))
    ELSE RaisePlain("ValueError", "invalid literal for int()")

Unsigned(b) == IF Signed(b) THEN Tail(b) ELSE b

IntOfText(b) == IntOfStripped(b, Unsigned(b))

\* int(val): an int is returned as is, a float is cut, text is stripped and parsed
int(val) ==
    CASE val.t = "int" -> Ok(val)
      [] val.t = "float" -> Ok(PyInt(Negate(val.n < 0, Negate(val.n < 0, val.n) \div 10)))
      [] val.t = "str" -> IntOfText(strip(val.s))
      [] OTHER -> RaisePlain("TypeError", "int() argument must be a string or a number")

\* position of the first c of s, or 0
FirstAt(s, c) ==
    IF \E i \in 1..Len(s) : s[i] = c
    THEN CHOOSE i \in 1..Len(s) : s[i] = c /\ \A j \in 1..(i - 1) : s[j] # c
    ELSE 0

\* the text of s before position p, all of s when p is 0
Before(s, p) == IF p = 0 THEN s ELSE SubSeq(s, 1, p - 1)

\* the text of s after position p, none when p is 0
After(s, p) == IF p = 0 THEN <<>> ELSE SubSeq(s, p + 1, Len(s))

\* float() of text split at its point: digits on either side, not both empty.
\* The model holds tenths, so the fraction digits after the first must be
\* zeros; the inputs of the model are chosen so.
FloatOfParts(neg, ip, fp) ==
    IF /\ (ip # <<>> \/ fp # <<>>)
       /\ \A i \in 1..Len(ip) : IsDigit(ip[i])
       /\ \A i \in 1..Len(fp) : IsDigit(fp[i])
    THEN Ok(PyFloat(Negate(neg, DigitsVal(ip) * 10 + (IF fp = <<>> THEN 0 ELSE DigitVal(fp[1])))))
    ELSE RaisePlain("ValueError", "could not convert string to float")

FloatOfUnsigned(neg, d, p) == FloatOfParts(neg, Before(d, p), After(d, p))

FloatOfStripped(b, d) == FloatOfUnsigned(IsNegative(b), d, FirstAt(d, "."))

FloatOfText(b) == FloatOfStripped(b, Unsigned(b))

float(val) ==
    CASE val.t = "float" -> Ok(val)
      [] val.t = "int" -> Ok(PyFloat(val.n * 10))
      [] val.t = "str" -> FloatOfText(strip(val.s))
      [] OTHER -> RaisePlain("TypeError", "float() argument must be a string or a number")

\* '{:.<decimals>f}'.format(x) for a magnitude of q whole units and r tenths:
\* exact for one or more places, round-half-even for none (a half is exact
\* in binary)
FixedDigits(q, r, decimals) ==
    IF decimals = 0
    THEN NatStr(IF r > 5 \/ (r = 5 /\ q % 2 = 1) THEN q + 1 ELSE q)
    ELSE NatStr(q) \o <<".">> \o <<Digits[r + 1]>> \o Repeat("0", decimals - 1)

FixedMagnitude(a, decimals) == FixedDigits(a \div 10, a % 10, decimals)

FixedStr(tenths, decimals) ==
    IF tenths < 0 THEN <<"-">> \o FixedMagnitude(-tenths, decimals) ELSE FixedMagnitude(tenths, decimals)

\* ------------------------------------------------------------------ padding
PadRight(s, length, c) == IF Len(s) < length THEN s \o Repeat(c, length - Len(s)) ELSE s

PadLeft(s, length, c) == IF Len(s) < length THEN Repeat(c, length - Len(s)) \o s ELSE s

\* '{0:<{fill}}'.format(val, fill=length)
str_padding(length, val) == PadRight(str(val), length, " ")

\* '{0:0{direction}{fill}}'.format(val, direction=direction, fill=length):
\* the text of val, sign included, filled with zeros on the chosen side
int_padding(length, val, direction) ==
    IF direction = ">" THEN PadLeft(str(val), length, "0") ELSE PadRight(str(val), length, "0")

\* '{0:0>{fill}.{precision}f}'.format(x, fill=length, precision=decimals)
FloatFormat(length, x, decimals) ==
    IF x.ok THEN Ok(PyStr(PadLeft(FixedStr(x.val.n, decimals), length, "0"))) ELSE x

float_padding(length, val, decimals) == FloatFormat(length, float(val), decimals)

is_blank_string(val) == isinstance_basestring(val) /\ strip(val.s) = <<>>

\* ------------------------------------------------------------------ dates
IsLeap(y) == (y % 4 = 0 /\ y % 100 # 0) \/ y % 400 = 0

DaysIn(y, m) == IF m = 2 THEN (IF IsLeap(y) THEN 29 ELSE 28) ELSE IF m \in {4, 6, 9, 11} THEN 30 ELSE 31

YearOf(val) == val.n \div 1000000

MonthOf(val) == (val.n \div 10000) % 100

DayOf(val) == (val.n \div 100) % 100

\* val.strftime("%Y-%m-%d")
strftime(val, format) ==
    ZeroPad(YearOf(val), 4) \o <<"-">> \o ZeroPad(MonthOf(val), 2) \o <<"-">> \o ZeroPad(DayOf(val), 2)

\* a day of strptime's %d: one or two digits, or a space and a digit
DayDigits(ds) == IF Len(ds) = 2 /\ ds[1] = " " THEN Tail(ds) ELSE ds

IsDate(y, m, d) == y >= 1 /\ m \in 1..12 /\ d >= 1 /\ d <= DaysIn(y, m)

DateOfParts(ys, ms, ds) ==
    IF /\ Len(ys) = 4 /\ AllDigits(ys)
       /\ Len(ms) \in {1, 2} /\ AllDigits(ms)
       /\ Len(ds) \in {1, 2} /\ AllDigits(DayDigits(ds))
       /\ IsDate(DigitsVal(ys), DigitsVal(ms), DigitsVal(DayDigits(ds)))
    THEN Ok(PyDateTime(DigitsVal(ys), DigitsVal(ms), DigitsVal(DayDigits(ds)), 0))
    ELSE RaisePlain("ValueError", "time data does not match format")

DateOfRest(ys, r, p) == DateOfParts(ys, Before(r, p), After(r, p))

DateOfSplit(s, p) ==
    IF p = 0
    THEN RaisePlain("ValueError", "time data does not match format")
    ELSE DateOfRest(Before(s, p), After(s, p), FirstAt(After(s, p), "-"))

\* datetime.datetime.strptime(s, "%Y-%m-%d"): four digits of year, one or two
\* of month and of day, dashes between, the whole text consumed, the date a
\* real one; else ValueError
strptime(s, format) == DateOfSplit(s, FirstAt(s, "-"))

\* ------------------------------------------------------------------ field definitions
Kinds == {"StringField", "NewLineField", "PostalCodeField", "IntegerField", "DecimalField",
          "DateTimeField", "DateField", "FragmentField", "ListField"}

\* a field object before __init__ runs: the class attributes of FixedWidthField
ClassAttrs(kind) ==
    [kind |-> kind, attname |-> <<>>, auto_truncate |-> FALSE, creation_counter |-> 0,
     length |-> 0, default |-> NOT_PROVIDED, decimals |-> 0, format |-> "", record_class |-> ""]

\* FixedWidthField.__init__ skipping the increment of the class counter
FixedWidthField_init_stale(self, length, default, counter) ==
    [self |-> [self EXCEPT !.length = length, !.default = default, !.creation_counter = counter],
     counter |-> counter]

\* FixedWidthField.__init__: the field and the class counter after the call
FixedWidthField_init(self, length, default, counter) ==
    [self |-> [self EXCEPT !.length = length, !.default = default, !.creation_counter = counter],
     counter |-> counter + 1]

NewLineField_init(self, counter) == FixedWidthField_init(self, 1, PyStr(<<"\n">>), counter)

PostalCodeField_init(self, counter) == FixedWidthField_init(self, 9, NOT_PROVIDED, counter)

DecimalField_init(self, length, default, decimals, counter) ==
    FixedWidthField_init([self EXCEPT !.decimals = decimals], length, default, counter)

DateTimeField_init(self, length, default, format, counter) ==
    FixedWidthField_init([self EXCEPT !.format = format], length, default, counter)

\* ------------------------------------------------------------------ FixedWidthField
_get_instance_field(self) == self.attname \o <<"_">> \o IntStr(self.creation_counter)

has_default(self) == self.default # NOT_PROVIDED

callable(val) == val.t = "function"

\* the value of get_default when the factory has been invoked `calls` times before
FixedWidthField_get_default(self, calls) ==
    IF has_default(self)
    THEN IF callable(self.default) THEN PyInt(calls + 1) ELSE self.default
    ELSE None

FixedWidthField_to_python(self, val) ==
    IF val = None THEN Ok(val) ELSE Ok(PyStr(rstrip(str(val))))

FixedWidthField_to_record(self, val) ==
    Ok(PyStr(str_padding(self.length, IF val = None THEN PyStr(<<>>) ELSE val)))

LengthMsg(self, record_val) ==
    [NoMsg EXCEPT !.fmt = "'{attname}' value '{0}' is longer than {length} chars.",
                  !.attname = self.attname, !.value = record_val, !.length = self.length]

\* _check_record_length rejecting a value of exactly the width as well
FixedWidthField_check_record_length_strict(self, record_val) ==
    IF Len(record_val) >= self.length
    THEN Raise("FieldLengthError", LengthMsg(self, record_val))
    ELSE Ok(None)

FixedWidthField_check_record_length(self, record_val) ==
    IF Len(record_val) > self.length
    THEN Raise("FieldLengthError", LengthMsg(self, record_val))
    ELSE Ok(None)

\* ------------------------------------------------------------------ scalar variants
NewLineField_to_python(self, val) == IF val = None THEN Ok(val) ELSE Ok(PyStr(str(val)))

\* the try block of PostalCodeField.to_record, i the outcome of int(val)
PostalCodeField_padded(self, val, i) ==
    IF i.ok THEN Ok(PyStr(int_padding(self.length, val, "<")))
    ELSE IF i.err = "ValueError" THEN Ok(PyStr(str_padding(self.length, val)))
    ELSE i

PostalCodeField_to_record(self, val) ==
    IF val = None \/ is_blank_string(val)
    THEN Ok(PyStr(str_padding(self.length, PyStr(<<" ">>))))
    ELSE PostalCodeField_padded(self, val, int(val))

IntegerField_to_python(self, val) ==
    IF val = None \/ is_blank_string(val) THEN Ok(None) ELSE int(val)

IntegerField_to_record(self, val) ==
    Ok(PyStr(int_padding(self.length, IF val = None THEN PyInt(0) ELSE val, ">")))

DecimalField_to_python(self, val) ==
    IF val = None \/ is_blank_string(val) THEN Ok(None) ELSE float(val)

DecimalField_to_record(self, val) ==
    float_padding(self.length, IF val = None THEN PyInt(0) ELSE val, self.decimals)

_format_string_date(self, val) ==
    IF strip(val.s) = <<>> THEN Ok(None) ELSE strptime(val.s, self.format)

DateTimeField_to_python(self, val) ==
    CASE val.t = "NoneType" -> Ok(None)
      [] val.t = "str" -> _format_string_date(self, val)
      [] val.t = "datetime" -> Ok(val)
      [] val.t = "date" -> Ok(PyDateTime(YearOf(val), MonthOf(val), DayOf(val), 0))
      [] OTHER -> RaisePlain("KeyError", val.t)

\* Python truth of a value: None, empty text, zero and empty sequences are false
Truthy(val) ==
    CASE val.t = "NoneType" -> FALSE
      [] val.t = "str" -> val.s # <<>>
      [] val.t \in {"int", "float"} -> val.n # 0
      [] val.t \in {"list", "tuple", "dict"} -> val.items # <<>>
      [] OTHER -> TRUE

DateTimeField_to_record(self, val) ==
    IF ~Truthy(val) THEN Ok(PyStr(str_padding(self.length, PyStr(<<>>))))
    ELSE IF val.t \in {"datetime", "date"} THEN Ok(PyStr(strftime(val, self.format)))
    ELSE RaisePlain("AttributeError", "object has no attribute 'strftime'")

\* result.date() when result is a datetime
DateField_result(result) ==
    IF result.ok /\ result.val.t = "datetime"
    THEN Ok(PyDate(YearOf(result.val), MonthOf(result.val), DayOf(result.val)))
    ELSE result

DateField_to_python(self, val) == DateField_result(DateTimeField_to_python(self, val))

ScalarKinds == Kinds \ {"FragmentField", "ListField"}

scalar_to_python(self, val) ==
    CASE self.kind \in {"StringField", "PostalCodeField"} -> FixedWidthField_to_python(self, val)
      [] self.kind = "NewLineField" -> NewLineField_to_python(self, val)
      [] self.kind = "IntegerField" -> IntegerField_to_python(self, val)
      [] self.kind = "DecimalField" -> DecimalField_to_python(self, val)
      [] self.kind = "DateTimeField" -> DateTimeField_to_python(self, val)
      [] self.kind = "DateField" -> DateField_to_python(self, val)

scalar_to_record(self, val) ==
    CASE self.kind \in {"StringField", "NewLineField"} -> FixedWidthField_to_record(self, val)
      [] self.kind = "PostalCodeField" -> PostalCodeField_to_record(self, val)
      [] self.kind = "IntegerField" -> IntegerField_to_record(self, val)
      [] self.kind = "DecimalField" -> DecimalField_to_record(self, val)
      [] self.kind \in {"DateTimeField", "DateField"} -> DateTimeField_to_record(self, val)

\* get_record_value: the truncation under auto_truncate
truncated(self, record_val) == IF self.auto_truncate THEN Take(record_val, self.length) ELSE record_val

\* get_record_value: the outcome of the check, and the return
checked_value(record_val, checked) == IF checked.ok THEN Ok(PyStr(record_val)) ELSE checked

scalar_checked(self, record_val) ==
    checked_value(record_val, FixedWidthField_check_record_length(self, record_val))

\* get_record_value past to_record, which gave `encoded`: an exception of
\* to_record goes through
scalar_validated(self, encoded) ==
    IF encoded.ok THEN scalar_checked(self, truncated(self, encoded.val.s)) ELSE encoded

\* get_record_value of a scalar field, whose _check_record_length is the base one
scalar_get_record_value(self, val) == scalar_validated(self, scalar_to_record(self, val))

\* ------------------------------------------------------------------ Record container
\* The container that aggregates fields into a record is outside fields.py;
\* it is modelled from its contract: its ordered field definitions, its
\* width, blank and mapping construction, from_record and to_record.
RecordClasses == {"R", "Other"}

\* the mapping entry of a field the mapping does not mention
Missing == V("missing", <<>>, 0, <<>>)

Record_fields(cls) ==
    LET a == FixedWidthField_init([ClassAttrs("StringField") EXCEPT !.attname = <<"a">>], 1, NOT_PROVIDED, 0)
        b == FixedWidthField_init([ClassAttrs("IntegerField") EXCEPT !.attname = <<"b">>], 1, NOT_PROVIDED, a.counter)
    IN <<a.self, b.self>>

\* the class counter once the record classes have been declared
CounterAfterRecords == Len(Record_fields("R"))

RECURSIVE SumLengths(_)
SumLengths(fs) == IF fs = <<>> THEN 0 ELSE Head(fs).length + SumLengths(Tail(fs))

Record_len(cls) == SumLengths(Record_fields(cls))

\* the first failure of a sequence of results, or Ok(None)
RECURSIVE FirstFailure(_)
FirstFailure(rs) == IF rs = <<>> THEN Ok(None) ELSE IF ~Head(rs).ok THEN Head(rs) ELSE FirstFailure(Tail(rs))

RECURSIVE JoinText(_)
JoinText(rs) == IF rs = <<>> THEN <<>> ELSE Head(rs).val.s \o JoinText(Tail(rs))

Record_new(cls) ==
    LET fs == Record_fields(cls)
    IN Rec(cls, [i \in 1..Len(fs) |-> FixedWidthField_get_default(fs[i], 0)])

\* the record built from the decoded values rs, or the first failure among them
Record_of(cls, rs) ==
    IF \A i \in 1..Len(rs) : rs[i].ok
    THEN Ok(Rec(cls, [i \in 1..Len(rs) |-> rs[i].val]))
    ELSE FirstFailure(rs)

Record_from_mapping_fields(cls, fs, mapping) ==
    Record_of(cls, [i \in 1..Len(fs) |->
                      IF mapping.items[i] = Missing
                      THEN Ok(FixedWidthField_get_default(fs[i], 0))
                      ELSE scalar_to_python(fs[i], mapping.items[i])])

Record_from_mapping(cls, mapping) == Record_from_mapping_fields(cls, Record_fields(cls), mapping)

\* the number of characters before field i
RECURSIVE Offset(_, _)
Offset(fs, i) == IF i = 1 THEN 0 ELSE Offset(fs, i - 1) + fs[i - 1].length

Record_from_record_fields(cls, fs, text) ==
    Record_of(cls, [i \in 1..Len(fs) |->
                      scalar_to_python(fs[i], PyStr(Take(Drop(text, Offset(fs, i)), fs[i].length)))])

Record_from_record(cls, text) == Record_from_record_fields(cls, Record_fields(cls), text)

\* the texts of rs joined, or the first failure among them
Joined(rs) == IF \A i \in 1..Len(rs) : rs[i].ok THEN Ok(PyStr(JoinText(rs))) ELSE FirstFailure(rs)

Record_to_record_fields(rec, fs) ==
    Joined([i \in 1..Len(fs) |-> scalar_get_record_value(fs[i], rec.items[i])])

Record_to_record(rec) == Record_to_record_fields(rec, Record_fields(rec.t))

\* v.to_record() of an arbitrary value: only record instances have the method
call_to_record(v) ==
    IF v.t \in RecordClasses THEN Record_to_record(v)
    ELSE RaisePlain("AttributeError", "object has no attribute 'to_record'")

\* ------------------------------------------------------------------ FragmentField
FragmentField_init(self, record, counter) ==
    FixedWidthField_init([self EXCEPT !.record_class = record], Record_len(record), NOT_PROVIDED, counter)

\* the except clause of FragmentField.to_python: a KeyError becomes a TypeError
FragmentField_except(self, r) ==
    IF ~r.ok /\ r.err = "KeyError"
    THEN Raise("TypeError", [NoMsg EXCEPT !.fmt = "Redefined field must be a string or {record} instance.",
                                           !.record = self.record_class])
    ELSE r

FragmentField_to_python(self, val) ==
    FragmentField_except(self,
        CASE val.t = "NoneType" -> Ok(Record_new(self.record_class))
          [] val.t = "str" -> Record_from_record(self.record_class, val.s)
          [] val.t = self.record_class -> Ok(val)
          [] val.t = "dict" -> Record_from_mapping(self.record_class, val)
          [] OTHER -> RaisePlain("KeyError", val.t))

FragmentField_to_record(self, val) ==
    IF val = None THEN Record_to_record(Record_new(self.record_class)) ELSE call_to_record(val)

\* ------------------------------------------------------------------ ListField
ListField_init(self, record, length, counter) ==
    FixedWidthField_init([self EXCEPT !.record_class = record], length, NOT_PROVIDED, counter)

\* the list of the decoded records rs, or the first failure among them
ListOf(rs) ==
    IF \A i \in 1..Len(rs) : rs[i].ok THEN Ok(PyList([i \in 1..Len(rs) |-> rs[i].val])) ELSE FirstFailure(rs)

_get_records_from_string(self, val) ==
    ListOf([i \in 1..self.length |->
              Record_from_record(self.record_class,
                                 Take(Drop(val.s, (i - 1) * Record_len(self.record_class)),
                                      Record_len(self.record_class)))])

_sequence_to_python(self, val) ==
    IF \A i \in 1..Len(val.items) : val.items[i].t = "dict"
    THEN ListOf([i \in 1..Len(val.items) |-> Record_from_mapping(self.record_class, val.items[i])])
    ELSE IF ~(\A i \in 1..Len(val.items) : val.items[i].t = self.record_class)
    THEN Raise("TypeError", [NoMsg EXCEPT !.fmt = "List field must contain instances of '{0}'.",
                                           !.record = self.record_class])
    ELSE Ok(PyList(val.items))

ListField_to_python(self, val) ==
    CASE val.t = "str" -> _get_records_from_string(self, val)
      [] val.t \in {"list", "tuple"} -> _sequence_to_python(self, val)
      [] OTHER -> RaisePlain("TypeError", "'NoneType' object is not callable")

ListField_get_default(self) == PyList(<<>>)

\* the while loop of to_record never entered
ListField_pad_skipped(self, val) == val

\* the while loop of to_record: default records appended to val itself
ListField_pad(self, val) ==
    IF val.t = "list" /\ Len(val.items) < self.length
    THEN PyList(val.items \o [i \in 1..(self.length - Len(val.items)) |-> Record_new(self.record_class)])
    ELSE val

\* the join of to_record over the padded items
ListField_join(items) == Joined([i \in 1..Len(items) |-> call_to_record(items[i])])

ListField_to_record(self, val) ==
    CASE val.t \notin {"list", "tuple", "str", "dict"} -> RaisePlain("TypeError", "object has no len()")
      [] val.t \in {"tuple", "str", "dict"} /\ Len(IF val.t = "str" THEN val.s ELSE val.items) < self.length ->
            RaisePlain("AttributeError", "object has no attribute 'append'")
      [] val.t \in {"str", "dict"} -> RaisePlain("AttributeError", "object has no attribute 'to_record'")
      [] OTHER -> ListField_join(ListField_pad(self, val).items)

ListField_check_record_length(self, record_val) ==
    IF Len(record_val) > self.length * Record_len(self.record_class)
    THEN Raise("FieldLengthError",
               [NoMsg EXCEPT !.fmt = "'{attname}' contains {cnt} records but can only have {length}.",
                             !.attname = self.attname,
                             !.cnt = Len(record_val) \div Record_len(self.record_class),
                             !.length = self.length])
    ELSE Ok(None)

\* ------------------------------------------------------------------ method dispatch
to_python(self, val) ==
    CASE self.kind = "FragmentField" -> FragmentField_to_python(self, val)
      [] self.kind = "ListField" -> ListField_to_python(self, val)
      [] OTHER -> scalar_to_python(self, val)

to_record(self, val) ==
    CASE self.kind = "FragmentField" -> FragmentField_to_record(self, val)
      [] self.kind = "ListField" -> ListField_to_record(self, val)
      [] OTHER -> scalar_to_record(self, val)

\* the object passed to to_record as it is once the call is over
to_record_arg(self, val) == IF self.kind = "ListField" THEN ListField_pad(self, val) ELSE val

_check_record_length(self, record_val) ==
    IF self.kind = "ListField"
    THEN ListField_check_record_length(self, record_val)
    ELSE FixedWidthField_check_record_length(self, record_val)

field_checked(self, record_val) == checked_value(record_val, _check_record_length(self, record_val))

validated(self, encoded) ==
    IF encoded.ok THEN field_checked(self, truncated(self, encoded.val.s)) ELSE encoded

get_record_value(self, val) == validated(self, to_record(self, val))

get_default(self, calls) ==
    IF self.kind = "ListField" THEN ListField_get_default(self) ELSE FixedWidthField_get_default(self, calls)

\* ------------------------------------------------------------------ accessors
\* instance.__dict__ with attribute key set to val
SetAttr(instance, key, val) == [k \in DOMAIN instance \cup {key} |-> IF k = key THEN val ELSE instance[k]]

\* the outcome of __set__: the instance after the call, and what to_python did
Stored(self, instance, r) ==
    [instance |-> IF r.ok THEN SetAttr(instance, _get_instance_field(self), r.val) ELSE instance,
     ret |-> r]

\* __set__ storing the raw input
FixedWidthField_set_raw(self, instance, val) == Stored(self, instance, Ok(val))

\* __set__: setattr(instance, key, self.to_python(val)); an exception of
\* to_python leaves the instance as it was
FixedWidthField_set(self, instance, val) == Stored(self, instance, to_python(self, val))

HasAttr(self, instance) == _get_instance_field(self) \in DOMAIN instance

\* __get__: the stored object, or get_default() when the attribute is missing
FixedWidthField_get(self, instance, calls) ==
    IF HasAttr(self, instance) THEN instance[_get_instance_field(self)] ELSE get_default(self, calls)

\* does this __get__ invoke the default factory?
InvokesFactory(self, instance) ==
    ~HasAttr(self, instance) /\ self.kind # "ListField" /\ has_default(self) /\ callable(self.default)

\* ------------------------------------------------------------------ inputs
AB == <<"a", "b">>

TooLong == <<"t", "o", "o", "l", "o", "n", "g", "v", "a", "l", "u", "e">>

ADate == <<"2", "0", "2", "4", "-", "0", "1", "-", "0", "5">>

R1 == Rec("R", <<PyStr(<<"x">>), PyInt(1)>>)

R2 == Rec("R", <<PyStr(<<"y">>), None>>)

D1 == PyDict(<<PyStr(<<"x", " ">>), PyStr(<<"1">>)>>)

\* exact-width texts of n nested records
RecordTexts(n) ==
    LET w == Record_len("R")
    IN {Repeat(" ", n * w),
        <<"x", "1">> \o Repeat(" ", (n - 1) * w),
        <<"x", "z">> \o Repeat(" ", (n - 1) * w)}
       \cup (IF n >= 2 THEN {<<"x", "1", "y", "0">> \o Repeat(" ", (n - 2) * w)} ELSE {})

DecodeInputs(self) ==
    CASE self.kind = "StringField" ->
            {None, PyStr(<<>>), PyStr(AB), PyStr(AB \o <<" ">>), PyStr(AB \o <<"c">>),
             PyStr(AB \o AB), PyStr(TooLong), PyInt(7)}
      [] self.kind = "NewLineField" -> {None, PyStr(<<"\n">>), PyStr(<<" ">>), PyStr(AB)}
      [] self.kind = "PostalCodeField" ->
            {None, PyStr(<<" ">>), PyStr(<<"1", "2", "3", "4", "5">>), PyStr(<<"A", "B", "C">>),
             PyInt(12345), PyStr(<<"1", "2", "3", "4", "5", "6", "7", "8", "9", "0">>)}
      [] self.kind = "IntegerField" ->
            {None, PyStr(<<>>), PyStr(<<" ", " ">>), PyStr(<<"4", "2">>), PyStr(<<"0", "0", "7">>),
             PyStr(AB), PyInt(0), PyInt(42), PyInt(-3), PyInt(1234)}
      [] self.kind = "DecimalField" ->
            {None, PyStr(<<" ">>), PyStr(<<"1", ".", "5">>), PyStr(AB), PyInt(3),
             PyFloat(0), PyFloat(5), PyFloat(15), PyFloat(25), PyFloat(-15), PyFloat(1234)}
      [] self.kind \in {"DateTimeField", "DateField"} ->
            {None, PyStr(<<>>), PyStr(<<" ", " ">>), PyStr(ADate), PyStr(ADate \o <<" ", " ">>),
             PyStr(<<"2", "0", "2", "4", "-", "1", "3", "-", "0", "1">>),
             PyDateTime(2024, 1, 5, 13), PyDate(2024, 2, 29), PyInt(5)}
      [] self.kind = "FragmentField" ->
            {None, R1, R2, D1, Rec("R", <<PyStr(<<"x">>), PyInt(-1)>>), Rec("Other", <<None, None>>),
             PyInt(5), PyList(<<>>)}
            \cup {PyStr(s) : s \in RecordTexts(1)}
      [] self.kind = "ListField" ->
            {None, PyInt(5), D1, PyList(<<>>), PyList(<<R1>>), PyList(<<R1, R2>>), PyList(<<R2, R1, R2>>),
             PyList(<<R1, R2, R1, R2>>), PyTuple(<<R1>>), PyList(<<D1>>), PyList(<<R1, PyInt(5)>>),
             PyList(<<Rec("Other", <<None, None>>)>>)}
            \cup {PyStr(s) : s \in RecordTexts(self.length)}

\* the value of a successful decode, else the raw value
ValueOr(r, v) == IF r.ok THEN r.val ELSE v

\* what callers hand to to_record: decoded values, and the raw inputs as well
EncodeInputs(self) == DecodeInputs(self) \cup {ValueOr(to_python(self, v), v) : v \in DecodeInputs(self)}

\* ------------------------------------------------------------------ declarations
Bound(r, attname, auto_truncate) == [r.self EXCEPT !.attname = attname, !.auto_truncate = auto_truncate]

\* the field definitions a record class may declare, constructed when the
\* class counter is `counter`
Declarations(counter) ==
    {FixedWidthField_init(ClassAttrs("StringField"), n, d, counter) :
        n \in {3, 5}, d \in {NOT_PROVIDED, PyStr(AB), Factory}}
    \cup {NewLineField_init(ClassAttrs("NewLineField"), counter)}
    \cup {PostalCodeField_init(ClassAttrs("PostalCodeField"), counter)}
    \cup {FixedWidthField_init(ClassAttrs("IntegerField"), 3, d, counter) : d \in {NOT_PROVIDED, PyInt(7)}}
    \cup {DecimalField_init(ClassAttrs("DecimalField"), 4, NOT_PROVIDED, p, counter) : p \in {0, 1, 2}}
    \cup {DateTimeField_init(ClassAttrs("DateTimeField"), n, NOT_PROVIDED, "%Y-%m-%d", counter) : n \in {10, 12}}
    \cup {DateTimeField_init(ClassAttrs("DateField"), 10, NOT_PROVIDED, "%Y-%m-%d", counter)}
    \cup {FragmentField_init(ClassAttrs("FragmentField"), "R", counter)}
    \cup {ListField_init(ClassAttrs("ListField"), "R", n, counter) : n \in {2, 3}}

\* a declaration or two of each class, for runs that only construct definitions
OnePerKind(counter) ==
    {r \in Declarations(counter) :
        /\ r.self.default \in {NOT_PROVIDED, PyStr(<<"\n">>)}
        /\ r.self.length \in {1, 2, 3, 4, 9, 10}
        /\ r.self.decimals \in {0, 2}
        /\ (r.self.kind = "DecimalField" => r.self.decimals = 2)}

AttNames == {<<"f">>, <<"f", "_", "1">>}

\* ------------------------------------------------------------------ state
VARIABLES creation_counter, fields, instance, call, factory_calls, written

vars == <<creation_counter, fields, instance, call, factory_calls, written>>

\* the field definition the calls go to: the one declared last
F == fields[Len(fields)]

NoCall == [op |-> "", arg |-> None, ret |-> Ok(None), after |-> None]

\* fields.py imported and the nested record class R declared
InitDefs ==
    /\ creation_counter = CounterAfterRecords
    /\ fields = Record_fields("R")
    /\ instance = [k \in {} |-> None]
    /\ call = NoCall
    /\ factory_calls = 0
    /\ written = NOT_PROVIDED

\* a record class with one field named f declared after R, and a blank
\* instance of it
Init ==
    /\ \E r \in Declarations(CounterAfterRecords), auto_truncate \in BOOLEAN :
          /\ fields = Append(Record_fields("R"), Bound(r, <<"f">>, auto_truncate))
          /\ creation_counter = r.counter
    /\ instance = [k \in {} |-> None]
    /\ call = NoCall
    /\ factory_calls = 0
    /\ written = NOT_PROVIDED

\* a field definition is constructed and bound to a name
Construct ==
    /\ Len(fields) < CounterAfterRecords + MaxFields
    /\ \E r \in OnePerKind(creation_counter), attname \in AttNames :
          /\ fields' = Append(fields, Bound(r, attname, FALSE))
          /\ creation_counter' = r.counter
    /\ UNCHANGED <<instance, call, factory_calls, written>>

CallToPython ==
    /\ \E v \in DecodeInputs(F) :
          call' = [op |-> "to_python", arg |-> v, ret |-> to_python(F, v), after |-> v]
    /\ UNCHANGED <<creation_counter, fields, instance, factory_calls, written>>

CallToRecord ==
    /\ \E v \in EncodeInputs(F) :
          call' = [op |-> "to_record", arg |-> v, ret |-> to_record(F, v), after |-> to_record_arg(F, v)]
    /\ UNCHANGED <<creation_counter, fields, instance, factory_calls, written>>

CallGetRecordValue ==
    /\ \E v \in EncodeInputs(F) :
          call' = [op |-> "get_record_value", arg |-> v, ret |-> get_record_value(F, v),
                   after |-> to_record_arg(F, v)]
    /\ UNCHANGED <<creation_counter, fields, instance, factory_calls, written>>

\* instance.f = v
SetTo(v, r) ==
    /\ instance' = r.instance
    /\ call' = [op |-> "set", arg |-> v, ret |-> r.ret, after |-> v]
    /\ written' = IF r.ret.ok THEN v ELSE written

Set ==
    /\ \E v \in DecodeInputs(F) : SetTo(v, FixedWidthField_set(F, instance, v))
    /\ UNCHANGED <<creation_counter, fields, factory_calls>>

\* instance.f
Get ==
    /\ InvokesFactory(F, instance) => factory_calls < MaxFactoryCalls
    /\ call' = [op |-> "get", arg |-> None, ret |-> Ok(FixedWidthField_get(F, instance, factory_calls)),
                after |-> None]
    /\ factory_calls' = IF InvokesFactory(F, instance) THEN factory_calls + 1 ELSE factory_calls
    /\ UNCHANGED <<creation_counter, fields, instance, written>>

\* get_record_value of the object val that a read returned: it is the
\* stored object itself, so what to_record does to it is done to the instance
Encode(val, after) ==
    /\ call' = [op |-> "get_then_encode", arg |-> val, ret |-> get_record_value(F, val), after |-> after]
    /\ instance' = IF HasAttr(F, instance) THEN SetAttr(instance, _get_instance_field(F), after) ELSE instance

EncodeRead(val) == Encode(val, to_record_arg(F, val))

\* F.get_record_value(instance.f)
GetThenEncode ==
    /\ InvokesFactory(F, instance) => factory_calls < MaxFactoryCalls
    /\ EncodeRead(FixedWidthField_get(F, instance, factory_calls))
    /\ factory_calls' = IF InvokesFactory(F, instance) THEN factory_calls + 1 ELSE factory_calls
    /\ UNCHANGED <<creation_counter, fields, written>>

Next == CallToPython \/ CallToRecord \/ CallGetRecordValue \/ Set \/ Get \/ GetThenEncode

Spec == Init /\ [][Next]_vars

NextAccessor == Set \/ Get

SpecAccessor == Init /\ [][NextAccessor]_vars

NextDefs == Construct

SpecDefs == InitDefs /\ [][NextDefs]_vars

\* ------------------------------------------------------------------ properties
IsPrefix(s, u) == Len(s) <= Len(u) /\ \A i \in 1..Len(s) : s[i] = u[i]

Min(a, b) == IF a < b THEN a ELSE b

IsEncodeCall == call.op \in {"to_record", "get_record_value", "get_then_encode"}

IsValidatedCall == call.op \in {"get_record_value", "get_then_encode"}

\* C1: the base validated encode returns encode(v) cut to the width when
\* auto_truncate is set; without it, a longer encode(v) fails with a
\* FieldLengthError naming the field, the value and the width, and an
\* encode(v) of at most the width is returned as it is.
C1_ValidatedEncode ==
    (IsValidatedCall /\ F.kind # "ListField" /\ to_record(F, call.arg).ok) =>
        LET text == to_record(F, call.arg).val.s
        IN /\ F.auto_truncate =>
                /\ call.ret.ok
                /\ Len(call.ret.val.s) = Min(Len(text), F.length)
                /\ IsPrefix(call.ret.val.s, text)
           /\ (~F.auto_truncate /\ Len(text) > F.length) =>
                /\ ~call.ret.ok
                /\ call.ret.err = "FieldLengthError"
                /\ call.ret.msg.attname = F.attname
                /\ call.ret.msg.value = text
                /\ call.ret.msg.length = F.length
           /\ (~F.auto_truncate /\ Len(text) <= F.length) => call.ret = Ok(PyStr(text))

C1_Witness ==
    /\ call.op = "get_record_value"
    /\ F.kind = "StringField" /\ F.length = 5 /\ ~F.auto_truncate
    /\ call.arg = PyStr(TooLong)
    /\ call.ret.err = "FieldLengthError"

\* the number of characters a field occupies in the record text: length,
\* and for a List field length nested records
Width(self) == IF self.kind = "ListField" THEN self.length * Record_len(self.record_class) ELSE self.length

\* a value whose encoding the length check accepts
FitsWidth(self, val) == get_record_value([self EXCEPT !.auto_truncate = FALSE], val).ok

\* C2: for every field kind, the encoding of a valid value is exactly as wide
\* as the field, and under auto_truncate so is every validated encoding,
\* over-long and short texts included.
C2_EncodeWidth ==
    /\ (call.op = "to_record" /\ call.ret.ok /\ FitsWidth(F, call.arg)) => Len(call.ret.val.s) = Width(F)
    /\ (IsValidatedCall /\ F.auto_truncate /\ call.ret.ok) => Len(call.ret.val.s) = Width(F)

\* equality of decoded values; text compares without its trailing whitespace
SameValue(a, b) == IF a.t = "str" /\ b.t = "str" THEN rstrip(a.s) = rstrip(b.s) ELSE a = b

\* a float whose text needs more places than the field has
BeyondPrecision(self, val) == self.kind = "DecimalField" /\ val.t = "float" /\ self.decimals = 0 /\ val.n % 10 # 0

\* does the encoding of val decode to the value val decodes to?
RoundTrips(self, val) ==
    /\ to_record(self, val).ok
    /\ to_python(self, to_record(self, val).val).ok
    /\ SameValue(to_python(self, to_record(self, val).val).val, to_python(self, val).val)

\* C3: for a scalar field and a value v that decode accepts, decoding the
\* encoding of v gives back v, Decimal beyond its places excepted.  Stated
\* here for the numeric fields and the numbers their decode returns.
C3_RoundTrip ==
    (/\ call.op = "to_record"
     /\ F.kind \in {"IntegerField", "DecimalField"}
     /\ call.arg.t \in {"int", "float"}
     /\ to_python(F, call.arg) = Ok(call.arg)
     /\ ~BeyondPrecision(F, call.arg)) =>
        /\ call.ret = to_record(F, call.arg)
        /\ RoundTrips(F, call.arg)

\* C4: decode of None succeeds for every kind and gives None, a default
\* nested record for Fragment, a sequence for List; blank text decodes to
\* None for Integer, Decimal, DateTime and Date.
C4_DecodeOfAbsent ==
    /\ (call.op = "to_python" /\ call.arg = None) =>
          /\ call.ret.ok
          /\ call.ret.val = CASE F.kind = "FragmentField" -> Record_new(F.record_class)
                              [] F.kind = "ListField" -> call.ret.val
                              [] OTHER -> None
          /\ F.kind = "ListField" => call.ret.val.t = "list"
    /\ (/\ call.op = "to_python"
        /\ F.kind \in {"IntegerField", "DecimalField", "DateTimeField", "DateField"}
        /\ is_blank_string(call.arg)) => call.ret = Ok(None)

\* the encodings of the records of items, one after the other
RECURSIVE EncodingsOf(_)
EncodingsOf(items) ==
    IF items = <<>> THEN <<>> ELSE call_to_record(Head(items)).val.s \o EncodingsOf(Tail(items))

\* k encodings of a freshly constructed record of class cls
RECURSIVE DefaultEncodings(_, _)
DefaultEncodings(cls, k) ==
    IF k = 0 THEN <<>> ELSE Record_to_record(Record_new(cls)).val.s \o DefaultEncodings(cls, k - 1)

\* the i-th window of w characters of text, i from 0
Window(text, i, w) == SubSeq(text, i * w + 1, (i + 1) * w)

\* a list of at most length records of the nested class, each of which encodes
IsShortRecordList(self, val) ==
    /\ val.t = "list"
    /\ Len(val.items) <= self.length
    /\ \A i \in 1..Len(val.items) : val.items[i].t = self.record_class /\ call_to_record(val.items[i]).ok

\* text decodes to exactly length records, the i-th from the i-th window
DecodesByWindows(self, text, decoded) ==
    /\ decoded.ok
    /\ decoded.val.t = "list"
    /\ Len(decoded.val.items) = self.length
    /\ \A i \in 1..self.length :
          decoded.val.items[i] =
              Record_from_record(self.record_class, Window(text, i - 1, Record_len(self.record_class))).val

\* C5: a List field of N records of width W encodes k <= N records as their
\* k encodings followed by N - k encodings of a default record, N * W
\* characters in all, and that text decodes to N records, the i-th from
\* characters [i * W, (i + 1) * W).
C5_ListEncodeDecode ==
    /\ (F.kind = "ListField" /\ call.op = "to_record" /\ IsShortRecordList(F, call.arg)) =>
          /\ call.ret.ok
          /\ call.ret.val.s = EncodingsOf(call.arg.items)
                                \o DefaultEncodings(F.record_class, F.length - Len(call.arg.items))
          /\ Len(call.ret.val.s) = F.length * Record_len(F.record_class)
          /\ DecodesByWindows(F, call.ret.val.s, to_python(F, call.ret.val))
    /\ (/\ F.kind = "ListField" /\ call.op = "to_python" /\ call.arg.t = "str"
        /\ Len(call.arg.s) = F.length * Record_len(F.record_class)
        /\ call.ret.ok) => DecodesByWindows(F, call.arg.s, call.ret)

C5_Witness ==
    /\ F.kind = "ListField" /\ F.length = 3
    /\ call.op = "to_record"
    /\ call.arg = PyList(<<R1>>)
    /\ call.ret.ok
    /\ Len(call.ret.val.s) = 6

\* C6: the validated encode of a List field of N records of width W fails
\* with a FieldLengthError exactly when the encoded text is longer than
\* N * W, reporting the whole records in that text and N; a text of at most
\* N * W characters is returned intact.
C6_ListValidatedEncode ==
    (F.kind = "ListField" /\ IsValidatedCall /\ to_record(F, call.arg).ok) =>
        LET text == to_record(F, call.arg).val.s
            limit == F.length * Record_len(F.record_class)
        IN /\ Len(text) > limit =>
                /\ ~call.ret.ok
                /\ call.ret.err = "FieldLengthError"
                /\ call.ret.msg.cnt = Len(text) \div Record_len(F.record_class)
                /\ call.ret.msg.length = F.length
           /\ Len(text) <= limit => call.ret = Ok(PyStr(text))

\* the shapes decode has a conversion rule for
HasConversionRule(self, val) ==
    IF self.kind = "FragmentField"
    THEN val.t \in {"NoneType", "str", "dict", self.record_class}
    ELSE \/ val.t = "str"
         \/ /\ val.t \in {"list", "tuple"}
            /\ \/ \A i \in 1..Len(val.items) : val.items[i].t = "dict"
               \/ \A i \in 1..Len(val.items) : val.items[i].t = self.record_class

\* C7: decode of a Fragment or List field on a shape without a conversion
\* rule fails with a TypeError that carries the name of the nested record type.
C7_NoConversionRule ==
    (/\ call.op = "to_python"
     /\ F.kind \in {"FragmentField", "ListField"}
     /\ ~HasConversionRule(F, call.arg)) =>
        /\ ~call.ret.ok
        /\ call.ret.err = "TypeError"
        /\ call.ret.msg.record = F.record_class

\* what a read of a field never written returns, once the read is over
DefaultRead(self) ==
    CASE self.kind = "ListField" -> PyList(<<>>)
      [] self.default = NOT_PROVIDED -> None
      [] self.default = Factory -> PyInt(factory_calls)
      [] OTHER -> self.default

\* C8: over reads and writes, a field never written holds nothing on the
\* instance and reads as its default (None without one, the static default,
\* or the result of a new invocation of the factory); a field written holds
\* decode of the most recent raw value that decode accepted, a write that
\* decode rejects changing nothing, and a read returns what is held.
C8_AccessorBinding ==
    /\ written = NOT_PROVIDED =>
          /\ ~HasAttr(F, instance)
          /\ call.op = "get" => call.ret = Ok(DefaultRead(F))
    /\ written # NOT_PROVIDED =>
          /\ HasAttr(F, instance)
          /\ to_python(F, written).ok
          /\ instance[_get_instance_field(F)] = to_python(F, written).val
          /\ call.op = "get" => call.ret = to_python(F, written)

C8_Witness ==
    /\ call.op = "get"
    /\ written = PyStr(AB \o <<" ">>)
    /\ call.ret = Ok(PyStr(AB))

\* C9: an encode leaves its argument as it was, the object stored on the
\* instance included.
C9_EncodeIsPure == IsEncodeCall => call.after = call.arg

\* C10: the class counter is the number of definitions created, every
\* definition holds an index greater than those of the definitions created
\* before it, and no two definitions have the same storage key.
C10_CreationIndex ==
    /\ creation_counter = Len(fields)
    /\ \A i, j \in 1..Len(fields) :
          i < j => /\ fields[i].creation_counter < fields[j].creation_counter
                   /\ fields[j].creation_counter < creation_counter
                   /\ _get_instance_field(fields[i]) # _get_instance_field(fields[j])

C10_Witness ==
    /\ Len(fields) >= CounterAfterRecords + 2
    /\ \E i, j \in 1..Len(fields) : i < j /\ i > CounterAfterRecords /\ fields[i].attname = fields[j].attname

====
